---- MODULE Spec2Model ----
(***************************************************************************)
(* Quiz-attempt session state machine of the Telegram quiz bot             *)
(* (src/bot.py, class TelegramQuizBot) together with the score computation *)
(* of src/models.py (QuizAttempt.calculate_score) and the lookups of       *)
(* src/utils/database.py (DatabaseManager).                                *)
(*                                                                         *)
(* One action per inbound chat event.  Each action is the whole handler:   *)
(* the nested calls show_question / finish_quiz / timeout_quiz are         *)
(* operators on a store record [sessions, attempts, answers, result].      *)
(***************************************************************************)
EXTENDS Integers, Sequences, FiniteSets, TLC

----------------------------------------------------------------------------
(* Bounds of the model *)

\* the clock runs from 0 to MaxTime
MaxTime == 2

\* total number of QuizAttempt rows the model lets start_quiz create
MaxAttempts == 2

----------------------------------------------------------------------------
(* Optional values: None is Python's None, Some(x) a set column *)

None == <<>>

Some(x) == <<x>>

Val(o) == o[1]

----------------------------------------------------------------------------
(* The database content that is read-only during a session *)

\* participants (User rows; telegram_id and id are in 1-1 correspondence)
Users == {1}

\* Quiz rows.  time_limit = 0 stands for NULL (falsy in `if quiz.time_limit`);
\* questions is the relationship ordered by Question.order_index;
\* notification_emails is the number of addresses in the JSON list.
Quizzes ==
  [id \in (1..4) \cup {6} |->
     CASE id = 1 -> [is_active |-> TRUE, time_limit |-> 1, max_attempts |-> 1,
                     passing_score |-> 50, questions |-> <<1, 2>>,
                     notification_emails |-> 1]
       [] id = 2 -> [is_active |-> TRUE, time_limit |-> 0, max_attempts |-> 2,
                     passing_score |-> 50, questions |-> <<3>>,
                     notification_emails |-> 0]
       [] id = 3 -> [is_active |-> TRUE, time_limit |-> 0, max_attempts |-> 1,
                     passing_score |-> 0, questions |-> <<>>,
                     notification_emails |-> 0]
       [] id = 4 -> [is_active |-> FALSE, time_limit |-> 0, max_attempts |-> 1,
                     passing_score |-> 50, questions |-> <<>>,
                     notification_emails |-> 0]
       [] id = 6 -> [is_active |-> TRUE, time_limit |-> 1, max_attempts |-> 1,
                     passing_score |-> 50, questions |-> <<4, 5, 6>>,
                     notification_emails |-> 1]]

\* quiz ids a callback can name: the four rows and one id with no row
QuizIdInputs == 1..5

\* Question rows
Questions ==
  [id \in 1..6 |->
     CASE id = 1 -> [quiz_id |-> 1, question_type |-> "multiple_choice", points |-> 1]
       [] id = 2 -> [quiz_id |-> 1, question_type |-> "multiple_choice", points |-> 1]
       [] id = 3 -> [quiz_id |-> 2, question_type |-> "text", points |-> 1]
       [] id = 4 -> [quiz_id |-> 6, question_type |-> "multiple_choice", points |-> 1]
       [] id = 5 -> [quiz_id |-> 6, question_type |-> "text", points |-> 2]
       [] id = 6 -> [quiz_id |-> 6, question_type |-> "multiple_choice", points |-> 1]]

\* QuestionOption rows
Options ==
  [id \in 1..6 |->
     CASE id = 1 -> [question_id |-> 1, is_correct |-> TRUE]
       [] id = 2 -> [question_id |-> 1, is_correct |-> FALSE]
       [] id = 3 -> [question_id |-> 2, is_correct |-> TRUE]
       [] id = 4 -> [question_id |-> 4, is_correct |-> TRUE]
       [] id = 5 -> [question_id |-> 4, is_correct |-> FALSE]
       [] id = 6 -> [question_id |-> 6, is_correct |-> TRUE]]

\* the quizzes a participant of the short scenario takes, and the quiz of the
\* long scenario (three questions, the middle one a text question)
ShortQuizzes == {1, 2, 3}

LongQuiz == 6

\* callback data answer_<question_id>_<option_id> of the buttons show_question
\* renders for the short quizzes: one per option of a question
RenderedCallbacks ==
  {<<Options[o].question_id, o>> :
     o \in {o \in DOMAIN Options : Questions[Options[o].question_id].quiz_id \in ShortQuizzes}}

\* the same for the long quiz
LongRenderedCallbacks ==
  {<<Options[o].question_id, o>> :
     o \in {o \in DOMAIN Options : Questions[Options[o].question_id].quiz_id = LongQuiz}}

\* callback data no button carries: the text question 5 with options of
\* question 4
LongCraftedCallbacks == {<<5, 4>>, <<5, 5>>}

LongCallbacks == LongRenderedCallbacks \cup LongCraftedCallbacks

\* callback data no button carries: question 2 with an option of question 1
CraftedCallbacks == {<<2, 1>>}

AnswerCallbacks == RenderedCallbacks \cup CraftedCallbacks

\* texts a participant can type
Texts == {"yes"}

\* texts of the long scenario: a word and a numeral
LongTexts == {"yes", "1"}

\* the integer a text denotes when it is compared with an Integer column,
\* None for a text that is no numeral
TextAsInteger(text) == IF text = "1" THEN Some(1) ELSE None

\* the raw answer kept in session['answers']: an option id or a typed text
OptionAnswer(option_id) == [kind |-> "option", option_id |-> option_id, text |-> ""]

TextAnswer(text) == [kind |-> "text", option_id |-> 0, text |-> text]

----------------------------------------------------------------------------
(* State *)

VARIABLES
  user_sessions,  \* self.user_sessions: participant -> session dict or None
  attempts,       \* quiz_attempts table: sequence of rows, id = position
  answers,        \* answers table: sequence of rows, id = position
  now,            \* datetime.now(timezone.utc), in whole time units
  result,         \* the message the last handler sent to the participant
  notifications,  \* ids of the attempts send_quiz_completion_notification got
  handler         \* the name of the last handler that ran

vars == <<user_sessions, attempts, answers, now, result, notifications, handler>>

----------------------------------------------------------------------------
(* DatabaseManager lookups *)

get_quiz_by_id(quiz_id) ==
  IF quiz_id \in DOMAIN Quizzes THEN Some(Quizzes[quiz_id]) ELSE None

get_question_by_id(question_id) ==
  IF question_id \in DOMAIN Questions THEN Some(Questions[question_id]) ELSE None

\* the id the raw answer is compared with in QuestionOption.id == option_id
LookupId(raw) ==
  IF raw.kind = "option" THEN Some(raw.option_id) ELSE TextAsInteger(raw.text)

\* the lookup is by the raw answer: a typed numeral matches the option row of
\* that id, any other text matches no row (a database that refuses to compare
\* an integer column with such a text raises instead; storage errors are not
\* modelled here)
get_question_option_by_id(raw) ==
  IF LookupId(raw) # None /\ Val(LookupId(raw)) \in DOMAIN Options
    THEN Some(Options[Val(LookupId(raw))])
    ELSE None

\* variant of get_user_quiz_attempts: only completed attempts are counted
get_user_quiz_attempts_CompletedOnly(atts, user_id, quiz_id) ==
  Cardinality({i \in DOMAIN atts : /\ atts[i].user_id = user_id
                                   /\ atts[i].quiz_id = quiz_id
                                   /\ atts[i].status = "completed"})

\* count of the participant's QuizAttempt rows for the quiz, of any status
get_user_quiz_attempts(atts, user_id, quiz_id) ==
  Cardinality({i \in DOMAIN atts : atts[i].user_id = user_id /\ atts[i].quiz_id = quiz_id})

----------------------------------------------------------------------------
(* session['answers']: a Python dict, kept as its items in insertion order *)

DictHas(d, k) == \E i \in DOMAIN d : d[i].key = k

\* variant of DictSet: a present key keeps its first value
DictSet_KeepsFirst(d, k, v) ==
  IF DictHas(d, k) THEN d ELSE Append(d, [key |-> k, value |-> v])

\* d[k] = v: a present key keeps its position, a new key goes last
DictSet(d, k, v) ==
  IF DictHas(d, k)
    THEN [i \in DOMAIN d |-> IF d[i].key = k THEN [key |-> k, value |-> v] ELSE d[i]]
    ELSE Append(d, [key |-> k, value |-> v])

----------------------------------------------------------------------------
(* The store the handlers work on *)

Store(sessions, atts, rows, res, sent) ==
  [sessions |-> sessions, attempts |-> atts, answers |-> rows, result |-> res,
   notifications |-> sent]

\* the QuizAttempt row start_quiz builds; the nullable columns are unset
NewAttempt(user_id, quiz_id, t) ==
  [user_id |-> user_id, quiz_id |-> quiz_id, started_at |-> t,
   completed_at |-> None, score |-> None, max_score |-> None,
   percentage |-> None, is_passed |-> None, time_taken |-> None,
   status |-> "in_progress"]

\* the session dict start_quiz stores
NewSession(attempt_id, quiz_id, t) ==
  [attempt_id |-> attempt_id, quiz_id |-> quiz_id, current_question |-> 0,
   start_time |-> t, answers |-> <<>>]

----------------------------------------------------------------------------
(* QuizAttempt.calculate_score *)

\* the rows of attempt.answers (relationship on Answer.attempt_id)
AttemptAnswers(rows, attempt_id) ==
  SelectSeq(rows, LAMBDA a : a.attempt_id = attempt_id)

RECURSIVE TotalPoints(_)
\* total_points += answer.question.points, over the given Answer rows
TotalPoints(rows) ==
  IF rows = <<>> THEN 0
  ELSE Questions[Head(rows).question_id].points + TotalPoints(Tail(rows))

RECURSIVE EarnedPoints(_)
\* earned_points += answer.question.points if answer.is_correct
EarnedPoints(rows) ==
  IF rows = <<>> THEN 0
  ELSE (IF Head(rows).is_correct THEN Questions[Head(rows).question_id].points ELSE 0)
       + EarnedPoints(Tail(rows))

\* variant of Percentage: the earned points are not divided by the total
Percentage_Undivided(earned, total) ==
  IF total > 0 THEN [num |-> earned * 100, den |-> 1] ELSE [num |-> 0, den |-> 1]

\* earned / total * 100 as the exact fraction num/den; 0 when total is 0
Percentage(earned, total) ==
  IF total > 0 THEN [num |-> earned * 100, den |-> total] ELSE [num |-> 0, den |-> 1]

\* variant of PercentageAtLeast: a percentage equal to passing_score fails
PercentageAtLeast_Strict(p, passing_score) == p.num > passing_score * p.den

\* percentage >= passing_score, on the exact fraction
PercentageAtLeast(p, passing_score) == p.num >= passing_score * p.den

calculate_score(attempt, rows, attempt_id) ==
  LET mine == AttemptAnswers(rows, attempt_id)
      total_points == TotalPoints(mine)
      earned_points == EarnedPoints(mine)
      percentage == Percentage(earned_points, total_points)
  IN [attempt EXCEPT
        !.score = Some(earned_points),
        !.max_score = Some(total_points),
        !.percentage = Some(percentage),
        !.is_passed = Some(PercentageAtLeast(percentage,
                                             Quizzes[attempt.quiz_id].passing_score))]

----------------------------------------------------------------------------
(* finish_quiz and timeout_quiz *)

\* variant of AnswerRow: the points are earned with any option that exists
AnswerRow_PointsForAnyOption(attempt_id, item) ==
  LET question == Val(get_question_by_id(item.key))
      option == get_question_option_by_id(item.value)
  IN [attempt_id |-> attempt_id,
      question_id |-> item.key,
      selected_option_id |-> item.value,
      is_correct |-> IF option # None THEN Val(option).is_correct ELSE FALSE,
      points_earned |-> IF option # None THEN question.points ELSE 0]

\* the Answer row finish_quiz builds for one item of session['answers']
AnswerRow(attempt_id, item) ==
  LET question == Val(get_question_by_id(item.key))
      option == get_question_option_by_id(item.value)
  IN [attempt_id |-> attempt_id,
      question_id |-> item.key,
      selected_option_id |-> item.value,
      is_correct |-> IF option # None THEN Val(option).is_correct ELSE FALSE,
      points_earned |-> IF option # None /\ Val(option).is_correct
                          THEN question.points ELSE 0]

\* variant of finish_quiz: the session is not deleted
finish_quiz_KeepsSession(st, u, t) ==
  LET session == st.sessions[u] IN
  IF session = None THEN [st EXCEPT !.result = "NoActiveSession"]
  ELSE
    LET s == Val(session)
        rows == st.answers \o
                [i \in DOMAIN s.answers |-> AnswerRow(s.attempt_id, s.answers[i])]
        attempt == st.attempts[s.attempt_id]
        closed == [attempt EXCEPT
                     !.completed_at = Some(t),
                     !.time_taken = Some(t - attempt.started_at),
                     !.status = "completed"]
        scored == calculate_score(closed, rows, s.attempt_id)
    IN Store(st.sessions,
             [st.attempts EXCEPT ![s.attempt_id] = scored],
             rows,
             "Completed",
             IF Quizzes[s.quiz_id].notification_emails > 0
               THEN st.notifications \cup {s.attempt_id}
               ELSE st.notifications)

finish_quiz(st, u, t) ==
  LET session == st.sessions[u] IN
  IF session = None THEN [st EXCEPT !.result = "NoActiveSession"]
  ELSE
    LET s == Val(session)
        rows == st.answers \o
                [i \in DOMAIN s.answers |-> AnswerRow(s.attempt_id, s.answers[i])]
        attempt == st.attempts[s.attempt_id]
        closed == [attempt EXCEPT
                     !.completed_at = Some(t),
                     !.time_taken = Some(t - attempt.started_at),
                     !.status = "completed"]
        scored == calculate_score(closed, rows, s.attempt_id)
    IN Store([st.sessions EXCEPT ![u] = None],
             [st.attempts EXCEPT ![s.attempt_id] = scored],
             rows,
             "Completed",
             IF Quizzes[s.quiz_id].notification_emails > 0
               THEN st.notifications \cup {s.attempt_id}
               ELSE st.notifications)

\* variant of timeout_quiz: the session is not deleted
timeout_quiz_KeepsSession(st, u, t) ==
  LET session == st.sessions[u] IN
  IF session = None THEN st
  ELSE
    LET s == Val(session)
        attempt == st.attempts[s.attempt_id]
    IN Store(st.sessions,
             [st.attempts EXCEPT ![s.attempt_id] =
                [attempt EXCEPT !.status = "expired", !.completed_at = Some(t)]],
             st.answers,
             "Expired",
             st.notifications)

timeout_quiz(st, u, t) ==
  LET session == st.sessions[u] IN
  IF session = None THEN st
  ELSE
    LET s == Val(session)
        attempt == st.attempts[s.attempt_id]
    IN Store([st.sessions EXCEPT ![u] = None],
             [st.attempts EXCEPT ![s.attempt_id] =
                [attempt EXCEPT !.status = "expired", !.completed_at = Some(t)]],
             st.answers,
             "Expired",
             st.notifications)

----------------------------------------------------------------------------
(* show_question and the handlers *)

show_question(st, u, question_index, t) ==
  LET session == st.sessions[u] IN
  IF session = None THEN [st EXCEPT !.result = "NoActiveSession"]
  ELSE
    LET s == Val(session)
        quiz == Quizzes[s.quiz_id]
    IN IF question_index >= Len(quiz.questions) THEN finish_quiz(st, u, t)
       ELSE
         LET moved == [st EXCEPT !.sessions[u] =
                         Some([s EXCEPT !.current_question = question_index])]
         IN IF quiz.time_limit # 0 /\ (t - s.start_time) > quiz.time_limit
              THEN timeout_quiz(moved, u, t)
              ELSE [moved EXCEPT !.result = "Question"]

show_quiz_info(st, u, quiz_id) ==
  LET quiz == get_quiz_by_id(quiz_id) IN
  IF quiz = None \/ ~Val(quiz).is_active THEN [st EXCEPT !.result = "QuizUnavailable"]
  ELSE
    LET attempt_count == get_user_quiz_attempts(st.attempts, u, quiz_id)
        attempts_left == Val(quiz).max_attempts - attempt_count
    IN IF attempts_left <= 0 THEN [st EXCEPT !.result = "AttemptsExhausted"]
       ELSE [st EXCEPT !.result = "QuizInfo"]

\* variant of start_quiz: the new session takes over the answers of the
\* participant's previous session
start_quiz_KeepsAnswers(st, u, quiz_id, t) ==
  LET quiz == get_quiz_by_id(quiz_id) IN
  IF quiz = None \/ ~Val(quiz).is_active THEN [st EXCEPT !.result = "QuizUnavailable"]
  ELSE
    LET atts == Append(st.attempts, NewAttempt(u, quiz_id, t))
        attempt_id == Len(atts)
        old == IF st.sessions[u] = None THEN <<>> ELSE Val(st.sessions[u]).answers
        started == [st EXCEPT !.attempts = atts,
                              !.sessions[u] =
                                Some([NewSession(attempt_id, quiz_id, t)
                                        EXCEPT !.answers = old])]
    IN show_question(started, u, 0, t)

\* variant of start_quiz: is_active is not looked at
start_quiz_IgnoresActive(st, u, quiz_id, t) ==
  LET quiz == get_quiz_by_id(quiz_id) IN
  IF quiz = None THEN [st EXCEPT !.result = "QuizUnavailable"]
  ELSE
    LET atts == Append(st.attempts, NewAttempt(u, quiz_id, t))
        attempt_id == Len(atts)
        started == [st EXCEPT !.attempts = atts,
                              !.sessions[u] = Some(NewSession(attempt_id, quiz_id, t))]
    IN show_question(started, u, 0, t)

start_quiz(st, u, quiz_id, t) ==
  LET quiz == get_quiz_by_id(quiz_id) IN
  IF quiz = None \/ ~Val(quiz).is_active THEN [st EXCEPT !.result = "QuizUnavailable"]
  ELSE
    LET atts == Append(st.attempts, NewAttempt(u, quiz_id, t))
        attempt_id == Len(atts)
        started == [st EXCEPT !.attempts = atts,
                              !.sessions[u] = Some(NewSession(attempt_id, quiz_id, t))]
    IN show_question(started, u, 0, t)

\* variant of handle_quiz_answer: without a session the participant's attempts
\* in progress are closed as expired
handle_quiz_answer_ClosesOrphans(st, u, question_id, option_id, t) ==
  LET session == st.sessions[u] IN
  IF session = None
    THEN [st EXCEPT !.result = "NoActiveSession",
                    !.attempts = [i \in DOMAIN st.attempts |->
                                    IF st.attempts[i].user_id = u
                                       /\ st.attempts[i].status = "in_progress"
                                      THEN [st.attempts[i] EXCEPT !.status = "expired"]
                                      ELSE st.attempts[i]]]
  ELSE
    LET s == Val(session)
        stored == [st EXCEPT !.sessions[u] =
                     Some([s EXCEPT !.answers =
                             DictSet(s.answers, question_id, OptionAnswer(option_id))])]
        next_question == s.current_question + 1
    IN show_question(stored, u, next_question, t)

handle_quiz_answer(st, u, question_id, option_id, t) ==
  LET session == st.sessions[u] IN
  IF session = None THEN [st EXCEPT !.result = "NoActiveSession"]
  ELSE
    LET s == Val(session)
        stored == [st EXCEPT !.sessions[u] =
                     Some([s EXCEPT !.answers =
                             DictSet(s.answers, question_id, OptionAnswer(option_id))])]
        next_question == s.current_question + 1
    IN show_question(stored, u, next_question, t)

show_question_text(st, u, question_index) ==
  LET s == Val(st.sessions[u]) IN
  [st EXCEPT !.sessions[u] = Some([s EXCEPT !.current_question = question_index]),
             !.result = "Question"]

\* the body only replies "Quiz completed! Processing your results..."
finish_quiz_text(st, u) == [st EXCEPT !.result = "Processing"]

\* variant of handle_text_message: the text is stored whatever the type of the
\* current question is
handle_text_message_AnyType(st, u, text) ==
  LET session == st.sessions[u] IN
  IF session = None THEN [st EXCEPT !.result = "NotUnderstood"]
  ELSE
    LET s == Val(session)
        questions == Quizzes[s.quiz_id].questions
        current_question == questions[s.current_question + 1]
    IN IF s.current_question >= Len(questions)
         THEN [st EXCEPT !.result = "IndexError"]
       ELSE
         LET stored == [st EXCEPT !.sessions[u] =
                          Some([s EXCEPT !.answers =
                                  DictSet(s.answers, current_question, TextAnswer(text))])]
             next_question == s.current_question + 1
         IN IF next_question < Len(questions)
              THEN show_question_text(stored, u, next_question)
              ELSE finish_quiz_text(stored, u)

\* questions[session['current_question']] raises IndexError for an index past
\* the end of the list: the handler stops there
handle_text_message(st, u, text) ==
  LET session == st.sessions[u] IN
  IF session = None THEN [st EXCEPT !.result = "NotUnderstood"]
  ELSE
    LET s == Val(session)
        questions == Quizzes[s.quiz_id].questions
        current_question == questions[s.current_question + 1]
    IN IF s.current_question >= Len(questions)
         THEN [st EXCEPT !.result = "IndexError"]
       ELSE IF Questions[current_question].question_type \in {"text", "boolean"}
         THEN
           LET stored == [st EXCEPT !.sessions[u] =
                            Some([s EXCEPT !.answers =
                                    DictSet(s.answers, current_question, TextAnswer(text))])]
               next_question == s.current_question + 1
           IN IF next_question < Len(questions)
                THEN show_question_text(stored, u, next_question)
                ELSE finish_quiz_text(stored, u)
         ELSE [st EXCEPT !.result = "NoReply"]

----------------------------------------------------------------------------
(* The state machine *)

Current == Store(user_sessions, attempts, answers, result, notifications)

Becomes(st) ==
  /\ user_sessions' = st.sessions
  /\ attempts' = st.attempts
  /\ answers' = st.answers
  /\ result' = st.result
  /\ notifications' = st.notifications

Init ==
  /\ user_sessions = [u \in Users |-> None]
  /\ attempts = <<>>
  /\ answers = <<>>
  /\ now = 0
  /\ result = "None"
  /\ notifications = {}
  /\ handler = "None"

\* callback quiz_info_<quiz_id>
ShowQuizInfo(u, quiz_id) ==
  /\ Becomes(show_quiz_info(Current, u, quiz_id))
  /\ handler' = "show_quiz_info"
  /\ UNCHANGED now

\* callback start_quiz_<quiz_id>
StartQuiz(u, quiz_id) ==
  /\ Len(attempts) < MaxAttempts
  /\ Becomes(start_quiz(Current, u, quiz_id, now))
  /\ handler' = "start_quiz"
  /\ UNCHANGED now

\* callback answer_<question_id>_<option_id>
HandleQuizAnswer(u, question_id, option_id) ==
  /\ Becomes(handle_quiz_answer(Current, u, question_id, option_id, now))
  /\ handler' = "handle_quiz_answer"
  /\ UNCHANGED now

\* a text message that is not a command
HandleTextMessage(u, text) ==
  /\ Becomes(handle_text_message(Current, u, text))
  /\ handler' = "handle_text_message"
  /\ UNCHANGED now

\* time passes between two events
Tick ==
  /\ now < MaxTime
  /\ now' = now + 1
  /\ UNCHANGED <<user_sessions, attempts, answers, result, notifications, handler>>

Next ==
  \/ \E u \in Users, quiz_id \in QuizIdInputs : ShowQuizInfo(u, quiz_id)
  \/ \E u \in Users, quiz_id \in QuizIdInputs : StartQuiz(u, quiz_id)
  \/ \E u \in Users, cb \in AnswerCallbacks : HandleQuizAnswer(u, cb[1], cb[2])
  \/ \E u \in Users, text \in Texts : HandleTextMessage(u, text)
  \/ Tick

Spec == Init /\ [][Next]_vars

----------------------------------------------------------------------------
(* The long scenario: one attempt of the long quiz, answered with buttons,   *)
(* crafted callbacks, words and numerals                                     *)

StartLongQuiz(u) ==
  /\ attempts = <<>>
  /\ StartQuiz(u, LongQuiz)

NextLong ==
  \/ \E u \in Users : StartLongQuiz(u)
  \/ \E u \in Users, cb \in LongCallbacks : HandleQuizAnswer(u, cb[1], cb[2])
  \/ \E u \in Users, text \in LongTexts : HandleTextMessage(u, text)
  \/ Tick

SpecLong == Init /\ [][NextLong]_vars

----------------------------------------------------------------------------
(* Storage errors: add_and_commit and save_changes roll back and re-raise,   *)
(* no handler catches, so the handler stops at the write that failed         *)

\* the answers table takes no further storage error once it holds this many
\* rows
MaxAnswerRows == 2

\* number of QuizAttempt rows the operations scenario lets start_quiz create
MaxOpsAttempts == 1

\* the writes of one handler run, numbered in the order they are attempted;
\* the write at the chosen position is the one that fails
FaultPositions == 0..3

\* finish_quiz when its k-th write fails: the Answer rows before it are
\* committed one by one, the attempt is not updated and the session is kept.
\* The writes are one add_and_commit per item of session['answers'], then
\* save_changes.
finish_quiz_failing(st, u, t, k) ==
  LET session == st.sessions[u] IN
  IF session = None THEN [st EXCEPT !.result = "NoActiveSession"]
  ELSE
    LET s == Val(session) IN
    IF k < 1 \/ k > Len(s.answers) + 1 THEN finish_quiz(st, u, t)
    ELSE
      LET committed == [i \in 1..(k - 1) |-> AnswerRow(s.attempt_id, s.answers[i])]
      IN [st EXCEPT !.answers = st.answers \o committed,
                    !.result = "StorageError"]

\* timeout_quiz when save_changes fails: the attempt keeps its row, the session
\* is kept
timeout_quiz_failing(st, u, t) ==
  LET session == st.sessions[u] IN
  IF session = None THEN st
  ELSE [st EXCEPT !.result = "StorageError"]

\* show_question when the k-th write of the finalization it runs fails
show_question_failing(st, u, question_index, t, k) ==
  LET session == st.sessions[u] IN
  IF session = None THEN [st EXCEPT !.result = "NoActiveSession"]
  ELSE
    LET s == Val(session)
        quiz == Quizzes[s.quiz_id]
    IN IF question_index >= Len(quiz.questions) THEN finish_quiz_failing(st, u, t, k)
       ELSE
         LET moved == [st EXCEPT !.sessions[u] =
                         Some([s EXCEPT !.current_question = question_index])]
         IN IF quiz.time_limit # 0 /\ (t - s.start_time) > quiz.time_limit
              THEN IF k = 1 THEN timeout_quiz_failing(moved, u, t)
                            ELSE timeout_quiz(moved, u, t)
              ELSE [moved EXCEPT !.result = "Question"]

\* variant of start_quiz_failing: the session is stored before the attempt row
\* is written
start_quiz_failing_SessionFirst(st, u, quiz_id, t, k) ==
  LET quiz == get_quiz_by_id(quiz_id) IN
  IF quiz = None \/ ~Val(quiz).is_active THEN [st EXCEPT !.result = "QuizUnavailable"]
  ELSE
    LET atts == Append(st.attempts, NewAttempt(u, quiz_id, t))
        attempt_id == Len(atts)
        started == [st EXCEPT !.attempts = atts,
                              !.sessions[u] = Some(NewSession(attempt_id, quiz_id, t))]
    IN IF k = 0
         THEN [st EXCEPT !.sessions[u] = Some(NewSession(attempt_id, quiz_id, t)),
                         !.result = "StorageError"]
         ELSE show_question_failing(started, u, 0, t, k)

\* start_quiz when a write fails: k = 0 is the add_and_commit of the attempt,
\* which raises before the session is stored; k >= 1 is the k-th write of
\* show_question(0)
start_quiz_failing(st, u, quiz_id, t, k) ==
  LET quiz == get_quiz_by_id(quiz_id) IN
  IF quiz = None \/ ~Val(quiz).is_active THEN [st EXCEPT !.result = "QuizUnavailable"]
  ELSE
    LET atts == Append(st.attempts, NewAttempt(u, quiz_id, t))
        attempt_id == Len(atts)
        started == [st EXCEPT !.attempts = atts,
                              !.sessions[u] = Some(NewSession(attempt_id, quiz_id, t))]
    IN IF k = 0
         THEN [st EXCEPT !.result = "StorageError"]
         ELSE show_question_failing(started, u, 0, t, k)

\* handle_quiz_answer when the k-th write of the finalization it runs fails:
\* the answer is already in the session
handle_quiz_answer_failing(st, u, question_id, option_id, t, k) ==
  LET session == st.sessions[u] IN
  IF session = None THEN [st EXCEPT !.result = "NoActiveSession"]
  ELSE
    LET s == Val(session)
        stored == [st EXCEPT !.sessions[u] =
                     Some([s EXCEPT !.answers =
                             DictSet(s.answers, question_id, OptionAnswer(option_id))])]
        next_question == s.current_question + 1
    IN show_question_failing(stored, u, next_question, t, k)

----------------------------------------------------------------------------
(* Callback data is kept as data.split("_"): answer_1_2 is                   *)
(* <<"answer", 1, 2>>, finish_quiz is <<"finish", "quiz">>                   *)

\* data.startswith(prefix + "_"), on the parts
StartsWith(data, prefix) ==
  /\ Len(data) > Len(prefix)
  /\ SubSeq(data, 1, Len(prefix)) = prefix

\* the navigation buttons show_question adds below the options: Previous and
\* Skip carry the question index, Finish Quiz carries none
NavigationCallbacks ==
  {<<"prev", "question", 1>>, <<"skip", "question", 0>>, <<"finish", "quiz">>}

\* variant of handle_callback_query: the Finish Quiz button finalizes
handle_callback_query_FinishButton(st, u, data, t) ==
  IF StartsWith(data, <<"quiz", "info">>) THEN show_quiz_info(st, u, data[3])
  ELSE IF StartsWith(data, <<"start", "quiz">>) THEN start_quiz(st, u, data[3], t)
  ELSE IF StartsWith(data, <<"answer">>)
    THEN handle_quiz_answer(st, u, data[2], data[3], t)
  ELSE IF data = <<"finish", "quiz">> THEN finish_quiz(st, u, t)
  ELSE [st EXCEPT !.result = "NoReply"]

\* the dispatch on the prefix of the callback data; data of no branch gets no
\* reply (update_email and update_phone touch no quiz state)
handle_callback_query(st, u, data, t) ==
  IF StartsWith(data, <<"quiz", "info">>) THEN show_quiz_info(st, u, data[3])
  ELSE IF StartsWith(data, <<"start", "quiz">>) THEN start_quiz(st, u, data[3], t)
  ELSE IF StartsWith(data, <<"answer">>)
    THEN handle_quiz_answer(st, u, data[2], data[3], t)
  ELSE [st EXCEPT !.result = "NoReply"]

----------------------------------------------------------------------------
(* The operations scenario: quizzes 1 and 3 with storage errors, a process   *)
(* restart and the navigation buttons                                        *)

OpsQuizzes == {1, 3}

\* the buttons of the questions of quiz 1
OpsCallbacks == {cb \in RenderedCallbacks : Questions[cb[1]].quiz_id = 1}

\* start_quiz_<quiz_id> during which a write fails
StartQuizStorageError(u, quiz_id, k) ==
  /\ k = 0 \/ Len(attempts) < MaxOpsAttempts
  /\ start_quiz_failing(Current, u, quiz_id, now, k).result = "StorageError"
  /\ Becomes(start_quiz_failing(Current, u, quiz_id, now, k))
  /\ handler' = "start_quiz"
  /\ UNCHANGED now

\* answer_<question_id>_<option_id> during which a write fails
HandleQuizAnswerStorageError(u, question_id, option_id, k) ==
  /\ Len(answers) < MaxAnswerRows
  /\ handle_quiz_answer_failing(Current, u, question_id, option_id, now, k).result
       = "StorageError"
  /\ Becomes(handle_quiz_answer_failing(Current, u, question_id, option_id, now, k))
  /\ handler' = "handle_quiz_answer"
  /\ UNCHANGED now

\* a callback of a navigation button
HandleCallbackQuery(u, data) ==
  /\ Becomes(handle_callback_query(Current, u, data, now))
  /\ handler' = "handle_callback_query"
  /\ UNCHANGED now

\* the process stops and TelegramQuizBot.__init__ runs again: the session
\* store is empty, the database is as it was
Restart ==
  /\ user_sessions' = [u \in Users |-> None]
  /\ result' = "None"
  /\ handler' = "__init__"
  /\ UNCHANGED <<attempts, answers, now, notifications>>

\* start_quiz_<quiz_id> of the operations scenario
StartOpsQuiz(u, quiz_id) ==
  /\ Len(attempts) < MaxOpsAttempts
  /\ StartQuiz(u, quiz_id)

NextOps ==
  \/ \E u \in Users, quiz_id \in OpsQuizzes : StartOpsQuiz(u, quiz_id)
  \/ \E u \in Users, quiz_id \in OpsQuizzes, k \in FaultPositions :
       StartQuizStorageError(u, quiz_id, k)
  \/ \E u \in Users, cb \in OpsCallbacks : HandleQuizAnswer(u, cb[1], cb[2])
  \/ \E u \in Users, cb \in OpsCallbacks, k \in FaultPositions :
       HandleQuizAnswerStorageError(u, cb[1], cb[2], k)
  \/ \E u \in Users, data \in NavigationCallbacks : HandleCallbackQuery(u, data)
  \/ \E u \in Users, text \in Texts : HandleTextMessage(u, text)
  \/ Restart
  \/ Tick

SpecOps == Init /\ [][NextOps]_vars

----------------------------------------------------------------------------
(* Vocabulary of the properties *)

HasSession(u) == user_sessions[u] # None

Session(u) == Val(user_sessions[u])

\* the id of the question at the session's current_question index
CurrentQuestionId(u) ==
  Quizzes[Session(u).quiz_id].questions[Session(u).current_question + 1]

\* the session's current question is the last one of its quiz
OnLastQuestion(u) ==
  Session(u).current_question + 1 = Len(Quizzes[Session(u).quiz_id].questions)

\* the quiz of the session has a time limit and it is exceeded
TimeExceeded(u) ==
  /\ Quizzes[Session(u).quiz_id].time_limit # 0
  /\ now - Session(u).start_time > Quizzes[Session(u).quiz_id].time_limit

Terminal == {"completed", "expired", "abandoned"}

----------------------------------------------------------------------------
(* The answering scenario: a participant without a session starts quiz 1 or  *)
(* 2 and answers the question that is shown; the handlers are run for every  *)
(* update, so answering is weakly fair                                       *)

LiveQuizzes == {1, 2}

\* start_quiz_<quiz_id> by a participant who is not in a quiz
StartLiveQuiz(u, quiz_id) ==
  /\ ~HasSession(u)
  /\ StartQuiz(u, quiz_id)

\* the participant answers the current question: with one of its buttons when
\* it is a multiple_choice question, with a typed text otherwise
AnswerShown(u) ==
  /\ HasSession(u)
  /\ IF Questions[CurrentQuestionId(u)].question_type = "multiple_choice"
       THEN \E cb \in RenderedCallbacks :
              /\ cb[1] = CurrentQuestionId(u)
              /\ HandleQuizAnswer(u, cb[1], cb[2])
       ELSE \E text \in Texts : HandleTextMessage(u, text)

NextLive ==
  \/ \E u \in Users, quiz_id \in LiveQuizzes : StartLiveQuiz(u, quiz_id)
  \/ \E u \in Users : AnswerShown(u)
  \/ Tick

SpecLive ==
  /\ Init
  /\ [][NextLive]_vars
  /\ \A u \in Users : WF_vars(AnswerShown(u))

----------------------------------------------------------------------------
(* Quota *)

\* C1: a start_quiz event for an active quiz of which the participant already
\* has max_attempts or more attempts yields AttemptsExhausted and creates no
\* Attempt and no Session.
C1_StartOverQuotaRejected ==
  [][\A u \in Users, quiz_id \in DOMAIN Quizzes :
       ( /\ Quizzes[quiz_id].is_active
         /\ get_user_quiz_attempts(attempts, u, quiz_id) >= Quizzes[quiz_id].max_attempts
         /\ StartQuiz(u, quiz_id) )
       => ( /\ result' = "AttemptsExhausted"
            /\ attempts' = attempts
            /\ user_sessions' = user_sessions )]_vars

----------------------------------------------------------------------------
(* Answer events *)

\* C2: an answer callback whose question id is not the id of the session's
\* current question changes neither the session nor the attempts and yields
\* StaleAnswer.
C2_StaleAnswerIsNoOp ==
  [][\A u \in Users, cb \in AnswerCallbacks :
       ( /\ HasSession(u)
         /\ cb[1] # CurrentQuestionId(u)
         /\ HandleQuizAnswer(u, cb[1], cb[2]) )
       => ( /\ user_sessions' = user_sessions
            /\ attempts' = attempts
            /\ result' = "StaleAnswer" )]_vars

\* C3: once the time limit of the session's quiz is exceeded, the next answer
\* event (a button answer, or a typed answer to a text or boolean question)
\* makes the attempt expired and removes the session, on any question.
C3_AnswerAfterTimeLimitExpires ==
  [][\A u \in Users :
       ( /\ HasSession(u)
         /\ TimeExceeded(u)
         /\ \/ \E cb \in AnswerCallbacks : HandleQuizAnswer(u, cb[1], cb[2])
            \/ /\ Questions[CurrentQuestionId(u)].question_type \in {"text", "boolean"}
               /\ \E text \in Texts : HandleTextMessage(u, text) )
       => ( /\ attempts'[Session(u).attempt_id].status = "expired"
            /\ user_sessions'[u] = None )]_vars

----------------------------------------------------------------------------
(* Scores of finalized attempts *)

RECURSIVE SumPointsEarned(_)
SumPointsEarned(rows) ==
  IF rows = <<>> THEN 0 ELSE Head(rows).points_earned + SumPointsEarned(Tail(rows))

RECURSIVE SumQuestionPoints(_)
SumQuestionPoints(question_ids) ==
  IF question_ids = <<>> THEN 0
  ELSE Questions[Head(question_ids)].points + SumQuestionPoints(Tail(question_ids))

\* C4: for every completed attempt, score is the sum of points_earned over the
\* attempt's persisted Answer rows, percentage is score / max_score * 100 (0
\* when max_score is 0), and is_passed holds exactly when percentage >=
\* passing_score of the quiz.
C4_CompletedScoreFields ==
  \A i \in DOMAIN attempts :
    attempts[i].status = "completed" =>
      /\ attempts[i].score # None
      /\ attempts[i].max_score # None
      /\ attempts[i].percentage # None
      /\ attempts[i].is_passed # None
      /\ LET score == Val(attempts[i].score)
             max_score == Val(attempts[i].max_score)
             percentage == Val(attempts[i].percentage)
             passing_score == Quizzes[attempts[i].quiz_id].passing_score
         IN /\ score = SumPointsEarned(AttemptAnswers(answers, i))
            /\ IF max_score = 0
                 THEN percentage.num = 0
                 ELSE percentage.num * max_score = score * 100 * percentage.den
            /\ Val(attempts[i].is_passed) =
                 (IF max_score = 0 THEN 0 >= passing_score
                  ELSE score * 100 >= passing_score * max_score)

\* a completed attempt with score 1 of 2, exactly the passing score 50, passed
C4_Witness ==
  \E i \in DOMAIN attempts :
    /\ attempts[i].status = "completed"
    /\ attempts[i].score = Some(1)
    /\ attempts[i].max_score = Some(2)
    /\ Quizzes[attempts[i].quiz_id].passing_score = 50
    /\ attempts[i].is_passed = Some(TRUE)

\* C5: for every finalized attempt (completed or expired), max_score is the sum
\* of points over every question of the quiz, answered or not.
C5_MaxScoreCoversAllQuestions ==
  \A i \in DOMAIN attempts :
    attempts[i].status \in {"completed", "expired"} =>
      attempts[i].max_score =
        Some(SumQuestionPoints(Quizzes[attempts[i].quiz_id].questions))

----------------------------------------------------------------------------
(* Finalization and the session *)

C7_StatusMonotonic ==
  [][\A i \in DOMAIN attempts :
       /\ attempts'[i].status # attempts[i].status
            => ( /\ attempts[i].status = "in_progress"
                 /\ attempts'[i].status \in Terminal )
       /\ attempts[i].status \in Terminal => attempts'[i] = attempts[i]]_vars

\* a first attempt is terminal and a later attempt has been finalized too
C7_Witness ==
  \E i, j \in DOMAIN attempts :
    /\ i < j
    /\ attempts[i].status \in Terminal
    /\ attempts[j].status \in Terminal
    /\ attempts[i].user_id = attempts[j].user_id

\* C8: an answer accepted on the last question within the time limit (a button
\* answer to a multiple_choice question, a typed answer to a text or boolean
\* question) completes the attempt, with the score fields set and the session's
\* answers persisted, and removes the session.
C8_LastAnswerCompletes ==
  [][\A u \in Users :
       ( /\ HasSession(u)
         /\ OnLastQuestion(u)
         /\ ~TimeExceeded(u)
         /\ \/ /\ Questions[CurrentQuestionId(u)].question_type = "multiple_choice"
               /\ \E cb \in RenderedCallbacks :
                    /\ cb[1] = CurrentQuestionId(u)
                    /\ HandleQuizAnswer(u, cb[1], cb[2])
            \/ /\ Questions[CurrentQuestionId(u)].question_type \in {"text", "boolean"}
               /\ \E text \in Texts : HandleTextMessage(u, text) )
       => ( /\ attempts'[Session(u).attempt_id].status = "completed"
            /\ attempts'[Session(u).attempt_id].score # None
            /\ \E k \in DOMAIN answers' :
                 /\ answers'[k].attempt_id = Session(u).attempt_id
                 /\ answers'[k].question_id = CurrentQuestionId(u)
            /\ user_sessions'[u] = None )]_vars

----------------------------------------------------------------------------
(* Starting a quiz *)

\* what a successful start leaves behind: one more attempt row, in progress,
\* of the participant and quiz, and a fresh session that references it
StartedFresh(u, quiz_id) ==
  /\ Len(attempts') = Len(attempts) + 1
  /\ SubSeq(attempts', 1, Len(attempts)) = attempts
  /\ attempts'[Len(attempts')].status = "in_progress"
  /\ attempts'[Len(attempts')].user_id = u
  /\ attempts'[Len(attempts')].quiz_id = quiz_id
  /\ user_sessions'[u] # None
  /\ Val(user_sessions'[u]).attempt_id = Len(attempts')
  /\ Val(user_sessions'[u]).quiz_id = quiz_id
  /\ Val(user_sessions'[u]).current_question = 0
  /\ Val(user_sessions'[u]).answers = <<>>

RemainingQuota(u, quiz_id) ==
  get_user_quiz_attempts(attempts, u, quiz_id) < Quizzes[quiz_id].max_attempts

\* C9 as stated: every start of an active quiz with remaining quota creates one
\* in_progress attempt and a fresh session at question 0 with no answers.
C9_StartCreatesAttemptAndSession ==
  [][\A u \in Users, quiz_id \in DOMAIN Quizzes :
       ( /\ Quizzes[quiz_id].is_active
         /\ RemainingQuota(u, quiz_id)
         /\ StartQuiz(u, quiz_id) )
       => StartedFresh(u, quiz_id)]_vars

\* C9 amended: a start of an active quiz with remaining quota that has at least
\* one question (and no negative time limit) creates one in_progress attempt
\* and a fresh session at question 0 with no answers.
C9_StartOfNonEmptyQuiz ==
  [][\A u \in Users, quiz_id \in DOMAIN Quizzes :
       ( /\ Quizzes[quiz_id].is_active
         /\ RemainingQuota(u, quiz_id)
         /\ Len(Quizzes[quiz_id].questions) > 0
         /\ Quizzes[quiz_id].time_limit >= 0
         /\ StartQuiz(u, quiz_id) )
       => StartedFresh(u, quiz_id)]_vars

\* a quiz was just started within quota: second attempt of quiz 2, the session
\* is at question 0 with no answers and its attempt is in progress
C9_Witness ==
  /\ handler = "start_quiz"
  /\ result = "Question"
  /\ \E u \in Users :
       /\ HasSession(u)
       /\ Session(u).current_question = 0
       /\ Session(u).answers = <<>>
       /\ Session(u).attempt_id = Len(attempts)
       /\ attempts[Len(attempts)].status = "in_progress"
       /\ get_user_quiz_attempts(attempts, u, Session(u).quiz_id)
            <= Quizzes[Session(u).quiz_id].max_attempts

\* C10: a start of a quiz that has no row or is inactive yields QuizUnavailable
\* and changes no attempt, answer or session.
C10_UnavailableQuizChangesNothing ==
  [][\A u \in Users, quiz_id \in QuizIdInputs :
       ( /\ (quiz_id \notin DOMAIN Quizzes \/ ~Quizzes[quiz_id].is_active)
         /\ StartQuiz(u, quiz_id) )
       => ( /\ result' = "QuizUnavailable"
            /\ UNCHANGED <<user_sessions, attempts, answers>> )]_vars

\* an unavailable quiz was refused while the participant had a session
C10_Witness ==
  /\ handler = "start_quiz"
  /\ result = "QuizUnavailable"
  /\ \E u \in Users : HasSession(u) /\ Session(u).answers # <<>>

----------------------------------------------------------------------------
(* Accepted answers *)

\* every callback and every text of the two scenarios
AllCallbacks == AnswerCallbacks \cup LongCallbacks

AllTexts == Texts \cup LongTexts

DictKeys(d) == {d[i].key : i \in DOMAIN d}

DictValue(d, k) == d[CHOOSE i \in DOMAIN d : d[i].key = k].value

\* after is before with k set to v: k maps to v, every other key keeps its
\* value, no key is added besides k and none occurs twice
IsUpdated(before, after, k, v) ==
  /\ DictKeys(after) = DictKeys(before) \cup {k}
  /\ Len(after) = Cardinality(DictKeys(after))
  /\ DictValue(after, k) = v
  /\ \A other \in DictKeys(before) \ {k} :
       DictValue(after, other) = DictValue(before, other)

\* the session of u took raw as the answer to question_id and moved on by one
Recorded(u, question_id, raw) ==
  /\ user_sessions'[u] # None
  /\ IsUpdated(Session(u).answers, Val(user_sessions'[u]).answers, question_id, raw)
  /\ Val(user_sessions'[u]).current_question = Session(u).current_question + 1
  /\ Val(user_sessions'[u]).attempt_id = Session(u).attempt_id

\* C11: an answer to the current question, not the last one and within the
\* time limit (a button answer, or a typed answer to a text or boolean
\* question), sets answers[question_id] to the raw answer, replacing an earlier
\* value and leaving the other entries, and adds exactly 1 to current_question.
C11_AcceptedAnswerRecorded ==
  [][\A u \in Users :
       ( /\ HasSession(u)
         /\ ~OnLastQuestion(u)
         /\ ~TimeExceeded(u) )
       => /\ \A cb \in AllCallbacks :
               (cb[1] = CurrentQuestionId(u) /\ HandleQuizAnswer(u, cb[1], cb[2]))
               => Recorded(u, cb[1], OptionAnswer(cb[2]))
          /\ \A text \in AllTexts :
               ( /\ Questions[CurrentQuestionId(u)].question_type \in {"text", "boolean"}
                 /\ HandleTextMessage(u, text) )
               => Recorded(u, CurrentQuestionId(u), TextAnswer(text))]_vars

\* the typed answer to question 5 replaced the value a callback had stored for
\* it while question 4 was current: question 4 itself has no entry
C11_Witness ==
  \E u \in Users :
    /\ HasSession(u)
    /\ Session(u).quiz_id = LongQuiz
    /\ Session(u).current_question = 2
    /\ Session(u).answers = <<[key |-> 5, value |-> TextAnswer("yes")]>>

\* C12: an answer event after the time limit is exceeded ends the attempt as
\* expired, and no Answer row of the attempt is persisted for the question id
\* of that event.
C12_LateAnswerNotPersisted ==
  [][\A u \in Users, cb \in AnswerCallbacks :
       ( /\ HasSession(u)
         /\ TimeExceeded(u)
         /\ HandleQuizAnswer(u, cb[1], cb[2]) )
       => ( /\ attempts'[Session(u).attempt_id].status = "expired"
            /\ \A k \in DOMAIN answers' :
                 ~ ( /\ answers'[k].attempt_id = Session(u).attempt_id
                     /\ answers'[k].question_id = cb[1] ) )]_vars

----------------------------------------------------------------------------
(* What finalization writes *)

\* C13: every attempt that is completed or expired has completed_at set and
\* time_taken set to completed_at - started_at.
C13_TerminalHasTimeTaken ==
  \A i \in DOMAIN attempts :
    attempts[i].status \in {"completed", "expired"} =>
      /\ attempts[i].completed_at # None
      /\ attempts[i].time_taken # None
      /\ Val(attempts[i].time_taken) = Val(attempts[i].completed_at) - attempts[i].started_at

\* C14: the step that makes an attempt expired persists one Answer row for
\* every item the session held before the event and sets score, max_score,
\* percentage and is_passed, as for a completed attempt.
C14_ExpiryPersistsAndScores ==
  [][\A u \in Users :
       ( /\ HasSession(u)
         /\ attempts[Session(u).attempt_id].status = "in_progress"
         /\ attempts'[Session(u).attempt_id].status = "expired" )
       => ( /\ \A i \in DOMAIN Session(u).answers :
                 \E k \in DOMAIN answers' :
                   /\ answers'[k].attempt_id = Session(u).attempt_id
                   /\ answers'[k].question_id = Session(u).answers[i].key
            /\ attempts'[Session(u).attempt_id].score # None
            /\ attempts'[Session(u).attempt_id].max_score # None
            /\ attempts'[Session(u).attempt_id].percentage # None
            /\ attempts'[Session(u).attempt_id].is_passed # None )]_vars

\* C15: every session in the store references an attempt row whose status is
\* in_progress.
C15_SessionAttemptInProgress ==
  \A u \in Users :
    HasSession(u) =>
      /\ Session(u).attempt_id \in DOMAIN attempts
      /\ attempts[Session(u).attempt_id].status = "in_progress"

\* a session with an answer in it, after an earlier attempt of the participant
\* reached a terminal status and lost its session
C15_Witness ==
  \E u \in Users :
    /\ HasSession(u)
    /\ Session(u).answers # <<>>
    /\ \E i \in DOMAIN attempts :
         /\ attempts[i].user_id = u
         /\ attempts[i].status \in Terminal
         /\ i < Session(u).attempt_id

----------------------------------------------------------------------------
(* Starting a quiz during a session *)

\* the session of u after the step is a new one: of the quiz, on an attempt
\* row that did not exist before, at question 0, with no answers
FreshSession(u, quiz_id) ==
  /\ user_sessions'[u] # None
  /\ Val(user_sessions'[u]).attempt_id = Len(attempts')
  /\ Val(user_sessions'[u]).attempt_id \notin DOMAIN attempts
  /\ Val(user_sessions'[u]).quiz_id = quiz_id
  /\ Val(user_sessions'[u]).current_question = 0
  /\ Val(user_sessions'[u]).answers = <<>>

\* C16 as stated: a start of an active quiz by a participant who has a session
\* replaces that session with a new one (new attempt_id, index 0, no answers).
C16_StartReplacesSession ==
  [][\A u \in Users, quiz_id \in DOMAIN Quizzes :
       ( /\ HasSession(u)
         /\ Quizzes[quiz_id].is_active
         /\ StartQuiz(u, quiz_id) )
       => FreshSession(u, quiz_id)]_vars

\* C16 amended: such a start leaves the participant with the new session only
\* (new attempt_id, index 0, no answers) when the quiz has a question, and with
\* no session when the quiz has none; nothing of the old session is kept.
C16_StartReplacesOrClearsSession ==
  [][\A u \in Users, quiz_id \in DOMAIN Quizzes :
       ( /\ HasSession(u)
         /\ Quizzes[quiz_id].is_active
         /\ Quizzes[quiz_id].time_limit >= 0
         /\ StartQuiz(u, quiz_id) )
       => IF Len(Quizzes[quiz_id].questions) = 0
            THEN user_sessions'[u] = None
            ELSE FreshSession(u, quiz_id)]_vars

\* a quiz was just started over a session that held an answer: the attempt of
\* the replaced session is still there, in progress and with no session
C16_Witness ==
  /\ handler = "start_quiz"
  /\ result = "Question"
  /\ \E u \in Users :
       /\ HasSession(u)
       /\ Session(u).answers = <<>>
       /\ Session(u).current_question = 0
       /\ \E i \in DOMAIN attempts :
            /\ i < Session(u).attempt_id
            /\ attempts[i].user_id = u
            /\ attempts[i].status = "in_progress"

InProgressOf(u) ==
  {i \in DOMAIN attempts : attempts[i].user_id = u /\ attempts[i].status = "in_progress"}

\* C17: a start of a quiz by a participant whose session's attempt is in
\* progress makes that attempt abandoned, and no participant ever has two
\* attempts in progress.
C17_StartAbandonsEarlierAttempt ==
  [][\A u \in Users :
       /\ \A quiz_id \in DOMAIN Quizzes :
            ( /\ HasSession(u)
              /\ Quizzes[quiz_id].is_active
              /\ StartQuiz(u, quiz_id) )
            => attempts'[Session(u).attempt_id].status = "abandoned"
       /\ Cardinality(InProgressOf(u)) <= 1]_vars

----------------------------------------------------------------------------
(* Notification *)

\* C18: an attempt that is completed or expired has had its completion
\* notification sent exactly when its quiz declares a notification recipient.
C18_NotificationForEveryOutcome ==
  \A i \in DOMAIN attempts :
    attempts[i].status \in {"completed", "expired"} =>
      (i \in notifications <=> Quizzes[attempts[i].quiz_id].notification_emails > 0)

----------------------------------------------------------------------------
(* Grading *)

\* the option row a persisted raw answer selects, None when there is none
SelectedOption(raw) ==
  LET id == IF raw.kind = "option" THEN raw.option_id
            ELSE IF raw.text = "1" THEN 1 ELSE 0
  IN IF id \in DOMAIN Options THEN Some(Options[id]) ELSE None

\* C19: every persisted Answer has is_correct equal to the is_correct flag of
\* its selected option, FALSE when there is no such option, and points_earned
\* equal to the question's points when is_correct and 0 otherwise.
C19_AnswerGradedByOptionFlag ==
  \A k \in DOMAIN answers :
    /\ answers[k].is_correct =
         (IF SelectedOption(answers[k].selected_option_id) = None THEN FALSE
          ELSE Val(SelectedOption(answers[k].selected_option_id)).is_correct)
    /\ answers[k].points_earned =
         (IF answers[k].is_correct THEN Questions[answers[k].question_id].points ELSE 0)

\* persisted: a correct answer whose option is of another question, worth the
\* points of its question, an answer with an incorrect option worth 0, and an
\* answer that selects no option
C19_Witness ==
  /\ \E k \in DOMAIN answers :
       /\ answers[k].is_correct
       /\ answers[k].selected_option_id.kind = "option"
       /\ Options[answers[k].selected_option_id.option_id].question_id
            # answers[k].question_id
       /\ answers[k].points_earned = Questions[answers[k].question_id].points
  /\ \E k \in DOMAIN answers :
       /\ SelectedOption(answers[k].selected_option_id) # None
       /\ ~answers[k].is_correct
       /\ answers[k].points_earned = 0
  /\ \E i \in DOMAIN attempts :
       /\ attempts[i].status = "completed"
       /\ \E k \in DOMAIN answers :
            /\ answers[k].attempt_id = i
            /\ SelectedOption(answers[k].selected_option_id) = None
            /\ ~answers[k].is_correct

\* C20: the Answer persisted for a typed answer has is_correct = FALSE and
\* points_earned = 0, its question's points count in max_score, and the step
\* that completes an attempt persists an Answer for every typed answer of the
\* session.
C20_TypedAnswerNeverGraded ==
  [][ /\ \A k \in DOMAIN answers' :
           answers'[k].selected_option_id.kind = "text" =>
             /\ ~answers'[k].is_correct
             /\ answers'[k].points_earned = 0
             /\ attempts'[answers'[k].attempt_id].max_score # None
             /\ Val(attempts'[answers'[k].attempt_id].max_score)
                  >= Questions[answers'[k].question_id].points
      /\ \A u \in Users :
           ( /\ HasSession(u)
             /\ attempts'[Session(u).attempt_id].status = "completed" )
           => \A i \in DOMAIN Session(u).answers :
                Session(u).answers[i].value.kind = "text" =>
                  \E k \in DOMAIN answers' :
                    /\ answers'[k].attempt_id = Session(u).attempt_id
                    /\ answers'[k].question_id = Session(u).answers[i].key
                    /\ answers'[k].selected_option_id = Session(u).answers[i].value
    ]_vars

----------------------------------------------------------------------------
(* Storage errors and restart *)

\* C21: an attempt never has two persisted Answer rows for the same question,
\* also when a storage error interrupted its finalization and the answer event
\* was repeated.
C21_OneAnswerPerQuestion ==
  \A i, j \in DOMAIN answers :
    ( /\ answers[i].attempt_id = answers[j].attempt_id
      /\ answers[i].question_id = answers[j].question_id )
    => i = j

\* C22: a start_quiz whose creation of the attempt row fails ends with the
\* storage error raised to its caller, and creates no attempt and changes no
\* session: a session the participant had is as it was.
C22_FailedStartKeepsSessions ==
  [][\A u \in Users, quiz_id \in OpsQuizzes :
       StartQuizStorageError(u, quiz_id, 0)
       => ( /\ result' = "StorageError"
            /\ user_sessions' = user_sessions
            /\ attempts' = attempts
            /\ answers' = answers )]_vars

\* the creation of an attempt just failed while the participant had a session
\* with an answer in it
C22_Witness ==
  /\ handler = "start_quiz"
  /\ result = "StorageError"
  /\ \E u \in Users :
       /\ HasSession(u)
       /\ Session(u).answers # <<>>
       /\ Session(u).attempt_id = Len(attempts)

\* the attempt is in progress and no session references it
Orphaned(i) ==
  /\ attempts[i].status = "in_progress"
  /\ \A u \in Users : HasSession(u) => Session(u).attempt_id # i

----------------------------------------------------------------------------
(* The quota count *)

\* the participant's attempts of the quiz that have the status
AttemptsWithStatus(u, quiz_id, status) ==
  {i \in DOMAIN attempts : /\ attempts[i].user_id = u
                           /\ attempts[i].quiz_id = quiz_id
                           /\ attempts[i].status = status}

\* C24: the attempt count that show_quiz_info holds against max_attempts is the
\* number of the participant's attempts of the quiz of every status: completed,
\* expired and in_progress ones count alike.
C24_QuotaCountsEveryStatus ==
  [][\A u \in Users, quiz_id \in DOMAIN Quizzes :
       (Quizzes[quiz_id].is_active /\ ShowQuizInfo(u, quiz_id))
       => ( result' = "AttemptsExhausted"
            <=> Cardinality(AttemptsWithStatus(u, quiz_id, "completed"))
                + Cardinality(AttemptsWithStatus(u, quiz_id, "expired"))
                + Cardinality(AttemptsWithStatus(u, quiz_id, "in_progress"))
                + Cardinality(AttemptsWithStatus(u, quiz_id, "abandoned"))
                >= Quizzes[quiz_id].max_attempts )]_vars

\* the quota was found used up by attempts of which none is completed: one
\* expired, one in progress without a session
C24_Witness ==
  /\ handler = "show_quiz_info"
  /\ result = "AttemptsExhausted"
  /\ \A i \in DOMAIN attempts : attempts[i].status # "completed"
  /\ \E i \in DOMAIN attempts : attempts[i].status = "expired"
  /\ \E i \in DOMAIN attempts : Orphaned(i)

----------------------------------------------------------------------------
(* Termination *)

\* C25: a participant in a quiz who keeps answering the question shown, with
\* no storage error, eventually has no session and no attempt in progress:
\* the attempt became completed or expired.
C25_AnsweringTerminates ==
  \A u \in Users :
    HasSession(u) ~>
      ( /\ ~HasSession(u)
        /\ \A i \in DOMAIN attempts :
             attempts[i].user_id = u => attempts[i].status \in {"completed", "expired"} )

----------------------------------------------------------------------------
(* Score bounds and index bounds *)

\* C26: every question having positive points, a completed attempt has
\* 0 <= score <= max_score and 0 <= percentage <= 100, whatever answer events
\* led to it.
C26_ScoreWithinBounds ==
  (\A q \in DOMAIN Questions : Questions[q].points > 0) =>
    \A i \in DOMAIN attempts :
      attempts[i].status = "completed" =>
        /\ attempts[i].score # None
        /\ attempts[i].max_score # None
        /\ attempts[i].percentage # None
        /\ 0 <= Val(attempts[i].score)
        /\ Val(attempts[i].score) <= Val(attempts[i].max_score)
        /\ 0 <= Val(attempts[i].percentage).num
        /\ Val(attempts[i].percentage).num <= 100 * Val(attempts[i].percentage).den

\* an attempt of the two-question quiz 1 completed with a single Answer row,
\* question 2 answered with an option of question 1: score 1 of 1
C26_Witness ==
  \E i \in DOMAIN attempts :
    /\ attempts[i].status = "completed"
    /\ attempts[i].quiz_id = 1
    /\ attempts[i].score = Some(1)
    /\ attempts[i].max_score = Some(1)
    /\ \E k \in DOMAIN answers :
         /\ answers[k].attempt_id = i
         /\ answers[k].question_id = 2
         /\ answers[k].selected_option_id = OptionAnswer(1)

\* C27: the current_question of every session is an index of a question of the
\* session's quiz; a quiz without questions has no session.
C27_CurrentQuestionValid ==
  \A u \in Users :
    HasSession(u) =>
      /\ 0 <= Session(u).current_question
      /\ Session(u).current_question < Len(Quizzes[Session(u).quiz_id].questions)

\* C28: a persisted Answer that earned points is for a question of the quiz of
\* its attempt, and its selected option is an option of that question.
C28_PointsOnlyForOwnQuestion ==
  \A k \in DOMAIN answers :
    answers[k].points_earned > 0 =>
      /\ Questions[answers[k].question_id].quiz_id
           = attempts[answers[k].attempt_id].quiz_id
      /\ SelectedOption(answers[k].selected_option_id) # None
      /\ Val(SelectedOption(answers[k].selected_option_id)).question_id
           = answers[k].question_id

----------------------------------------------------------------------------
(* Events that change nothing *)

\* C29: a callback of a navigation button (prev_question_<i>,
\* skip_question_<i>, finish_quiz) changes no session, attempt or answer.
C29_NavigationChangesNothing ==
  [][\A u \in Users, data \in NavigationCallbacks :
       HandleCallbackQuery(u, data)
       => UNCHANGED <<user_sessions, attempts, answers, notifications>>]_vars

\* a navigation button was pressed on the last question of a session that
\* holds an answer: the session and its attempt are still there
C29_Witness ==
  /\ handler = "handle_callback_query"
  /\ \E u \in Users :
       /\ HasSession(u)
       /\ Session(u).current_question = 1
       /\ Session(u).answers # <<>>
       /\ attempts[Session(u).attempt_id].status = "in_progress"

\* C30: a text message while the session's current question is a
\* multiple_choice question changes no session, attempt or answer: nothing is
\* recorded for the question.
C30_TextOnChoiceQuestionIgnored ==
  [][\A u \in Users, text \in AllTexts :
       ( /\ HasSession(u)
         /\ Questions[CurrentQuestionId(u)].question_type = "multiple_choice"
         /\ HandleTextMessage(u, text) )
       => UNCHANGED <<user_sessions, attempts, answers, notifications>>]_vars

\* a text was just typed at the second multiple_choice question of quiz 1: the
\* session holds the answer to the first question only
C30_Witness ==
  /\ handler = "handle_text_message"
  /\ \E u \in Users :
       /\ HasSession(u)
       /\ Questions[CurrentQuestionId(u)].question_type = "multiple_choice"
       /\ Session(u).current_question = 1
       /\ DictKeys(Session(u).answers) = {1}

====
